---------------------------- MODULE Spec2Model ----------------------------
(***************************************************************************)
(* A model of sklad: the tweet cache/resolver (sklad/twitter.py), the      *)
(* batch "tweet" command, the identifier parser and the timeline           *)
(* paginator (sklad/bot.py) over the Tweet table (sklad/db.py).            *)
(*                                                                         *)
(* Text is a sequence of one-character strings.  A Python int is kept as   *)
(* its canonical decimal digit sequence, so that ids around 2**63 keep     *)
(* their exact value.                                                      *)
(***************************************************************************)
EXTENDS Integers, Sequences, FiniteSets, TLC

VARIABLES
    text,       \* _get_tweet_id_from_text: the token passed in
    matches,    \* _get_tweet_id_from_text: the list returned
    textPc,     \* "input" before the call, "returned" after it
    store,      \* the Tweet table: a sequence of rows, the primary key is the position
    txn,        \* DATABASE.atomic(): whether a transaction is open, and the table at BEGIN
    twitters,   \* Bot.twitters: user id -> session handle
    cmd,        \* the update handler that is running (handlers run one at a time)
    tasks,      \* the coroutines the running handler spawned (as_completed / gather)
    completed,  \* as_completed: the tasks in the order they finished, not yet consumed
    orphans,    \* tasks that outlive a handler that ended with an exception
    out,        \* what the running handler sent to the chat
    chat,       \* the media messages of the paginator that are in the chat
    control,    \* the paginator's control message: its caption, buttons and their payload
    press,      \* the latest paginator handler that ran, and how it ended
    users,      \* the User table: a sequence of rows
    handles,    \* how many Twitter objects have been constructed
    call,       \* the latest _get_logged_in_twitter / login_as_user call and its position
    boot,       \* post_init: its position, the users auto_login still has to visit
    render,     \* the latest send_tweet call: its arguments and the messages it sent
    media,      \* _get_relevant_media_info: the provider's attachment and the result
    walk        \* a walk of presses on the control message: what each one showed

textVars == <<text, matches, textPc>>
resolverVars == <<store, txn, twitters, cmd, tasks, completed, orphans, out>>
pagerVars == <<chat, control, press, walk>>
loginVars == <<users, handles, call, boot>>
renderVars == <<render, media>>
vars ==
    <<text, matches, textPc, store, txn, twitters, cmd, tasks, completed, orphans, out,
      chat, control, press, users, handles, call, boot, render, media, walk>>

(***************************************************************************)
(* Bounds of the model.                                                    *)
(***************************************************************************)
MaxPieces == 4      \* a token is a concatenation of at most MaxPieces pieces
MaxArgs == 3        \* tokens of one tweet command
MaxPage == 2        \* entries of one provider timeline page
MaxVersion == 2     \* snapshots the provider may serve of one tweet
MaxOrphans == 0     \* orphaned tasks that may still run when a handler starts
MaxTweets == 3      \* rows of the table the paginator starts on
MaxTime == 3        \* creation times of those rows
MaxUsers == 2       \* rows of the User table
MaxHandles == 3     \* Twitter objects constructed in one run
MaxAttachments == 2 \* attachments of the tweet send_tweet is called on
MaxSends == 3       \* sends of one tweet
MaxVariants == 2    \* variants of a provider video

(***************************************************************************)
(* Characters, digit strings and Python ints.                              *)
(***************************************************************************)
\* the decimal digits: what \d matches and int() accepts
Decimals == {"0", "1", "2", "3", "4", "5", "6", "7", "8", "9"}

\* the character U+00B2: a digit for str.isdigit(), no decimal digit
SuperscriptTwo == "SUPERSCRIPT TWO"

\* the characters str.isdigit() accepts
Digits == Decimals \cup {SuperscriptTwo}

Whitespace == {" "}

DigitVal(c) ==
    CASE c = "0" -> 0 [] c = "1" -> 1 [] c = "2" -> 2 [] c = "3" -> 3
      [] c = "4" -> 4 [] c = "5" -> 5 [] c = "6" -> 6 [] c = "7" -> 7
      [] c = "8" -> 8 [] c = "9" -> 9

\* str.isdigit(): non-empty and every character a digit
IsDigit(s) == Len(s) > 0 /\ \A i \in 1..Len(s) : s[i] \in Digits

\* str.strip(): leading and trailing whitespace removed
RECURSIVE LStrip(_)
LStrip(s) == IF Len(s) > 0 /\ s[1] \in Whitespace THEN LStrip(Tail(s)) ELSE s

RECURSIVE RStrip(_)
RStrip(s) ==
    IF Len(s) > 0 /\ s[Len(s)] \in Whitespace
    THEN RStrip(SubSeq(s, 1, Len(s) - 1))
    ELSE s

Strip(s) == RStrip(LStrip(s))

\* int(s) raises ValueError unless s is a string of decimal digits
IsDecimal(s) == Len(s) > 0 /\ \A i \in 1..Len(s) : s[i] \in Decimals

\* int(s) of a decimal string: the decimal value, i.e. s without leading zeros
RECURSIVE PyInt(_)
PyInt(s) == IF Len(s) > 1 /\ s[1] = "0" THEN PyInt(Tail(s)) ELSE s

\* a > b on canonical digit sequences
RECURSIVE LexGreater(_, _)
LexGreater(a, b) ==
    IF Len(a) = 0 THEN FALSE
    ELSE IF DigitVal(a[1]) # DigitVal(b[1]) THEN DigitVal(a[1]) > DigitVal(b[1])
    ELSE LexGreater(Tail(a), Tail(b))

IntGreater(a, b) ==
    \/ Len(a) > Len(b)
    \/ Len(a) = Len(b) /\ LexGreater(a, b)

(***************************************************************************)
(* Bot._get_tweet_id_from_text: re.findall(r"status/(\d+)", text) after    *)
(* the isdigit() shortcut.                                                 *)
(***************************************************************************)
StatusLiteral == <<"s", "t", "a", "t", "u", "s", "/">>

\* the pattern matches at position i: the literal, then at least one digit
PatternAt(s, i) ==
    /\ i + Len(StatusLiteral) <= Len(s)
    /\ SubSeq(s, i, i + Len(StatusLiteral) - 1) = StatusLiteral
    /\ s[i + Len(StatusLiteral)] \in Decimals

\* \d+ is greedy: the last position of the digit run that starts at k
RECURSIVE DigitRunEnd(_, _)
DigitRunEnd(s, k) ==
    IF k < Len(s) /\ s[k + 1] \in Decimals THEN DigitRunEnd(s, k + 1) ELSE k

\* findall scans left to right and resumes after each match
RECURSIVE FindAllFrom(_, _)
FindAllFrom(s, i) ==
    IF i > Len(s) THEN <<>>
    ELSE IF PatternAt(s, i)
         THEN LET k == i + Len(StatusLiteral)
                  j == DigitRunEnd(s, k)
              IN  <<SubSeq(s, k, j)>> \o FindAllFrom(s, j + 1)
         ELSE FindAllFrom(s, i + 1)

FindAll(s) == FindAllFrom(s, 1)

GetTweetIdFromText(raw) ==
    LET stripped == Strip(raw)
    IN  IF IsDigit(stripped) THEN <<stripped>> ELSE FindAll(stripped)

(***************************************************************************)
(* Tokens of the parser's specification: concatenations of a few pieces.   *)
(***************************************************************************)
Pieces == {StatusLiteral, <<"0">>, <<"7">>, <<SuperscriptTwo>>, <<"x">>, <<"/">>, <<" ">>}

RECURSIVE Concat(_)
Concat(ps) == IF Len(ps) = 0 THEN <<>> ELSE Head(ps) \o Concat(Tail(ps))

Tokens ==
    { Concat(ps) : ps \in UNION { [1..n -> Pieces] : n \in 0..MaxPieces } }

TextInit ==
    /\ text \in Tokens
    /\ matches = <<>>
    /\ textPc = "input"

CallGetTweetIdFromText ==
    /\ textPc = "input"
    /\ matches' = GetTweetIdFromText(text)
    /\ textPc' = "returned"
    /\ UNCHANGED text


(***************************************************************************)
(* The Tweet table (sklad/db.py).  A row's primary key is its position in  *)
(* store.  text, created_at and user (user_id, user_name and               *)
(* user_screen_name together) are copied from the provider's tweet; one    *)
(* attachment is a media descriptor, of which the model keeps whether the  *)
(* chat platform's upload reference (telegram_data) is cached.             *)
(***************************************************************************)
TwoPow63 ==
    <<"9","2","2","3","3","7","2","0","3","6","8","5","4","7","7","5","8","0","8">>

\* the largest value SQLite binds as an INTEGER: 2**63 - 1
SqliteMaxInteger ==
    <<"9","2","2","3","3","7","2","0","3","6","8","5","4","7","7","5","8","0","7">>

TwoPow63Plus1 ==
    <<"9","2","2","3","3","7","2","0","3","6","8","5","4","7","7","5","8","0","9">>

\* Python values that stand for a tweet id: an int, or the provider's string
IntVal(n) == [ty |-> "int", n |-> n]
StrVal(n) == [ty |-> "str", n |-> n]
NoVal == [ty |-> "none", n |-> <<>>]

\* what the provider's client returns for one tweet
NoTweet == [id |-> <<>>, snap |-> 0, media |-> 0]

\* the tweets the provider has: tweet 7 carries one attachment, tweet 8 is
\* text only; any other id is "not available".  What the provider serves of
\* a tweet (text, author, creation time) is one of MaxVersion snapshots.
ProviderIds == {<<"7">>, <<"8">>}

MediaOf(i) == IF i = <<"7">> THEN 1 ELSE 0

ProviderTweets(ids) ==
    { [id |-> i, snap |-> v, media |-> MediaOf(i)] :
        i \in ids \cap ProviderIds, v \in 1..MaxVersion }

\* Tweet(tweet_id=..., text=..., ...): processed defaults to False
NewTweet(tw) ==
    [ tweet_id |-> PyInt(tw.id),
      text |-> tw.snap,
      created_at |-> tw.snap,
      user |-> tw.snap,
      attachments |-> [i \in 1..tw.media |-> [telegram_data |-> FALSE]],
      processed |-> FALSE ]

\* binding a Python int beyond the INTEGER range raises OverflowError
SqlOverflow(n) == IntGreater(n, SqliteMaxInteger)

\* Tweet.get_or_none(Tweet.tweet_id == n): the row's key, 0 for None
GetOrNone(s, n) ==
    IF \E k \in 1..Len(s) : s[k].tweet_id = PyInt(n)
    THEN CHOOSE k \in 1..Len(s) : s[k].tweet_id = PyInt(n)
    ELSE 0

\* (a table without the unique index)
NoUniqueIndex(s, row) == FALSE

\* tweet_id = IntegerField(unique=True): an INSERT of a present id fails
UniqueViolation(s, row) == \E k \in 1..Len(s) : s[k].tweet_id = row.tweet_id

\* int(tweet_id) > 2**63
TooLarge(n) == IntGreater(PyInt(n), TwoPow63)

\* (a resolver that refreshes the cached row from the provider's tweet)
RefreshOnCacheHit(s, k, tw) ==
    [s EXCEPT ![k].text = tw.snap, ![k].user = tw.snap, ![k].created_at = tw.snap]

\* _process_tweet found the row: it is returned as stored
OnCacheHit(s, k, tw) == s

(***************************************************************************)
(* One resolution: get_tweet_by_id (kind "by_id") or the _process_tweet of *)
(* one timeline entry (kind "process").  pc is the await the coroutine is  *)
(* suspended at: "start" not yet run, "fetch" the provider's answer,       *)
(* "media" get_relevant_media_info, "done" returned or raised.             *)
(* lookups, fetches, answer, inserted and cached_pk record what the        *)
(* coroutine did, for the properties below.                                *)
(***************************************************************************)
Pending == [kind |-> "pending", pk |-> 0, tweet_id |-> NoVal, error |-> ""]
ReturnNone == [kind |-> "none", pk |-> 0, tweet_id |-> NoVal, error |-> ""]
ReturnTweet(k, v) == [kind |-> "tweet", pk |-> k, tweet_id |-> v, error |-> ""]
Raise(e) == [kind |-> "raised", pk |-> 0, tweet_id |-> NoVal, error |-> e]

\* the key of the row that holds id n, read off the table itself
KeyOf(s, n) ==
    IF \E k \in 1..Len(s) : s[k].tweet_id = n
    THEN CHOOSE k \in 1..Len(s) : s[k].tweet_id = n
    ELSE 0

ByIdTask(n) ==
    [ kind |-> "by_id", id |-> n, pc |-> "start", tweet |-> NoTweet,
      result |-> Pending, lookups |-> 0, fetches |-> 0, answer |-> "",
      inserted |-> FALSE, cached_pk |-> 0 ]

ProcessTask(tw) ==
    [ kind |-> "process", id |-> PyInt(tw.id), pc |-> "start", tweet |-> tw,
      result |-> Pending, lookups |-> 0, fetches |-> 0, answer |-> "tweet",
      inserted |-> FALSE, cached_pk |-> 0 ]

Step(t, s) == [task |-> t, store |-> s]

\* tweet_object.save() of a new Tweet, and the return of the new object,
\* whose tweet_id is still the provider's string
SaveNew(t, s) ==
    IF UniqueViolation(s, NewTweet(t.tweet))
    THEN Step([t EXCEPT !.pc = "done", !.result = Raise("IntegrityError")], s)
    ELSE Step([t EXCEPT !.pc = "done", !.inserted = TRUE,
                        !.result = ReturnTweet(Len(s) + 1, StrVal(t.tweet.id))],
              Append(s, NewTweet(t.tweet)))

\* _process_tweet up to its first suspension: with no media to normalise
\* gather() of nothing is done at once and the save follows without a yield
ProcessTweet(t, s) ==
    LET k == GetOrNone(s, t.tweet.id)
        looked == [t EXCEPT !.lookups = @ + 1]
    IN  IF k # 0
        THEN Step([looked EXCEPT !.pc = "done",
                                 !.result = ReturnTweet(k, IntVal(s[k].tweet_id))],
                  OnCacheHit(s, k, t.tweet))
        ELSE IF t.tweet.media = 0
             THEN SaveNew(looked, s)
             ELSE Step([looked EXCEPT !.pc = "media"], s)

\* (a resolver that lets TweetNotAvailable through)
PropagateNotAvailable(t) ==
    [t EXCEPT !.pc = "done", !.answer = "unavailable",
              !.result = Raise("TweetNotAvailable")]

\* except TweetNotAvailable: return None
OnTweetNotAvailable(t) ==
    [t EXCEPT !.pc = "done", !.answer = "unavailable", !.result = ReturnNone]

\* get_tweet_by_id up to client.get_tweet_by_id
GetTweetById(t, s) ==
    IF TooLarge(t.id)
    THEN Step([t EXCEPT !.pc = "done", !.result = ReturnNone], s)
    ELSE IF SqlOverflow(PyInt(t.id))
         THEN Step([t EXCEPT !.pc = "done", !.lookups = @ + 1,
                             !.result = Raise("OverflowError")], s)
         ELSE LET k == GetOrNone(s, t.id)
              IN  IF k # 0
                  THEN Step([t EXCEPT !.pc = "done", !.lookups = @ + 1,
                                      !.result = ReturnTweet(k, IntVal(s[k].tweet_id))],
                            s)
                  ELSE Step([t EXCEPT !.pc = "fetch", !.lookups = @ + 1,
                                      !.fetches = @ + 1], s)

\* the first run of a coroutine; cached_pk notes whether its id was stored
FirstSteps(t, s) ==
    LET noted == [t EXCEPT !.cached_pk = KeyOf(s, PyInt(t.id))]
    IN  IF t.kind = "by_id" THEN {GetTweetById(noted, s)} ELSE {ProcessTweet(noted, s)}

\* the provider answers client.get_tweet_by_id(str(tweet_id))
FetchSteps(t, s) ==
    {Step(OnTweetNotAvailable(t), s)} \cup
    { ProcessTweet([t EXCEPT !.tweet = tw, !.answer = "tweet"], s) :
        tw \in ProviderTweets({t.id}) }

\* get_relevant_media_info returns and the new Tweet is saved
MediaSteps(t, s) == {SaveNew(t, s)}

TaskSteps(t, s) ==
    CASE t.pc = "start" -> FirstSteps(t, s)
      [] t.pc = "fetch" -> FetchSteps(t, s)
      [] t.pc = "media" -> MediaSteps(t, s)
      [] OTHER -> {}

(***************************************************************************)
(* Rendering (Bot.send_tweet): the layout follows the attachment count;    *)
(* with the caption suppressed and nothing attached it raises ValueError.  *)
(* A media send caches the upload reference on every attachment that has   *)
(* none and saves the Tweet.                                               *)
(***************************************************************************)
\* a layout that sends every tweet with attachments as a media group
AlwaysGroup(n) == IF n = 0 THEN "text" ELSE "group"

Layout(n) == IF n = 0 THEN "text" ELSE IF n = 1 THEN "single" ELSE "group"

\* attachment["telegram_data"] = ...; tweet.save(): the object in memory is written
CacheUploads(s, k, tweet) ==
    [s EXCEPT ![k] = [tweet EXCEPT !.attachments =
        [i \in 1..Len(tweet.attachments) |->
            [tweet.attachments[i] EXCEPT !.telegram_data = TRUE]]]]

SendTweet(s, k, tweet, no_caption) ==
    IF no_caption /\ Len(tweet.attachments) = 0
    THEN [ok |-> FALSE, layout |-> "none", store |-> s]
    ELSE [ok |-> TRUE, layout |-> Layout(Len(tweet.attachments)),
          store |-> IF Len(tweet.attachments) = 0 THEN s ELSE CacheUploads(s, k, tweet)]

\* the messages send_tweet sends for a tweet: texts are reply_text calls,
\* media the media messages, singles the reply_photo / reply_video /
\* reply_animation calls and groups the reply_media_group calls.  A video
\* of more than 50 MB without an upload reference is announced by a text.
Messages(tweet, no_caption) ==
    LET n == Len(tweet.attachments)
        warned == /\ tweet.attachments[1].type = "video"
                  /\ ~tweet.attachments[1].telegram_data
                  /\ tweet.attachments[1].large
    IN  IF no_caption /\ n = 0
        THEN [error |-> "ValueError", texts |-> 0, media |-> 0, singles |-> 0, groups |-> 0]
        ELSE IF Layout(n) = "text"
        THEN [error |-> "", texts |-> 1, media |-> 0, singles |-> 0, groups |-> 0]
        ELSE IF Layout(n) = "single"
        THEN [error |-> "", texts |-> IF warned THEN 1 ELSE 0, media |-> 1,
              singles |-> 1, groups |-> 0]
        ELSE [error |-> "", texts |-> 0, media |-> n, singles |-> 0, groups |-> 1]

Rendered(s, k, layout) == [pk |-> k, tweet_id |-> s[k].tweet_id, layout |-> layout]

Reply(kind, ids) == [kind |-> kind, ids |-> ids]

NoOutput == [rendered |-> <<>>, replies |-> <<>>]

(***************************************************************************)
(* Handlers.  The application is built without concurrent updates          *)
(* (main.py), so one handler runs at a time; the coroutines a handler      *)
(* spawns run while it is suspended, and go on running when it ends with   *)
(* an exception.                                                           *)
(***************************************************************************)
Users == {1, 2}

Id7 == <<"7">>
Id8 == <<"8">>

UrlOf(n) == <<"x", "/">> \o StatusLiteral \o n

CommandTokens ==
    { Id7, UrlOf(<<"0", "7">>), Id8, <<"x">>, <<SuperscriptTwo>>, TwoPow63, TwoPow63Plus1 }

CommandTexts == { T \in SUBSET CommandTokens : Cardinality(T) \in 1..MaxArgs }

PageIds == ProviderIds

\* one page is one answer of the provider: its entries are of one snapshot
Pages ==
    { [i \in 1..Len(ids) |-> [id |-> ids[i], snap |-> v, media |-> MediaOf(ids[i])]] :
        ids \in UNION { [1..n -> PageIds] : n \in 0..MaxPage }, v \in 1..MaxVersion }

Range(f) == { f[i] : i \in DOMAIN f }

RECURSIVE SetToSeq(_)
SetToSeq(S) ==
    IF S = {} THEN <<>>
    ELSE LET x == CHOOSE x \in S : TRUE IN <<x>> \o SetToSeq(S \ {x})

\* a task nobody awaits any more: what it did so far is of no interest
Orphan(t) ==
    [t EXCEPT !.lookups = 0, !.fetches = 0, !.answer = "", !.cached_pk = 0]

RECURSIVE Unfinished(_)
Unfinished(ts) ==
    IF Len(ts) = 0 THEN <<>>
    ELSE IF Head(ts).pc = "done" THEN Unfinished(Tail(ts))
         ELSE <<Orphan(Head(ts))>> \o Unfinished(Tail(ts))

\* the tasks of a handler that ended: the unfinished ones are run elsewhere
Abandoned(ts) ==
    [i \in 1..Len(ts) |-> IF ts[i].pc = "done" THEN ts[i] ELSE [ts[i] EXCEPT !.pc = "orphaned"]]

IdleCmd ==
    [kind |-> "idle", pc |-> "idle", user |-> 0, tokens |-> {}, ids |-> {}, found |-> {},
     consumed |-> 0, error |-> ""]

NoHandler == cmd.pc = "idle"

AllStarted == \A i \in 1..Len(tasks) : tasks[i].pc # "start"

\* a check that lets every user through
NoCheck(u) == TRUE

\* _check_logged_in
CheckLoggedIn(u) == u \in DOMAIN twitters /\ twitters[u].logged_in

\* chain.from_iterable(_get_tweet_id_from_text(t) for t in text)
CommandMatches(tokens) == UNION { Range(GetTweetIdFromText(t)) : t \in tokens }

\* set(map(int, ...))
CommandIds(tokens) == { PyInt(m) : m \in CommandMatches(tokens) }

\* any(ids): some id is not 0
AnyId(ids) == \E n \in ids : n # <<"0">>

\* send_tweet_by_id_url up to the as_completed loop
StartTweetCommand(u, tokens) ==
    /\ NoHandler
    /\ Len(orphans) <= MaxOrphans
    /\ completed' = <<>>
    /\ UNCHANGED <<store, txn, twitters, orphans>>
    /\ IF ~CheckLoggedIn(u)
       THEN /\ cmd' = [IdleCmd EXCEPT !.kind = "tweet", !.user = u, !.pc = "done", !.tokens = tokens]
            /\ out' = [NoOutput EXCEPT !.replies = <<Reply("not_logged_in", {})>>]
            /\ tasks' = <<>>
       ELSE IF \E m \in CommandMatches(tokens) : ~IsDecimal(m)
       THEN /\ cmd' = [IdleCmd EXCEPT !.kind = "tweet", !.user = u, !.pc = "done", !.tokens = tokens,
                                      !.error = "ValueError"]
            /\ out' = NoOutput
            /\ tasks' = <<>>
       ELSE IF ~AnyId(CommandIds(tokens))
       THEN /\ cmd' = [IdleCmd EXCEPT !.kind = "tweet", !.user = u, !.pc = "done", !.tokens = tokens]
            /\ out' = [NoOutput EXCEPT !.replies = <<Reply("invalid", {})>>]
            /\ tasks' = <<>>
       ELSE /\ cmd' = [IdleCmd EXCEPT !.kind = "tweet", !.user = u, !.pc = "await",
                                      !.tokens = tokens, !.ids = CommandIds(tokens)]
            /\ out' = NoOutput
            /\ tasks' = SetToSeq({ ByIdTask(n) : n \in CommandIds(tokens) })

\* a spawned coroutine runs to its first await; gather starts them in order
TaskStart(i) ==
    /\ cmd.pc = "await"
    /\ tasks[i].pc = "start"
    /\ cmd.kind = "timeline" => \A j \in 1..(i - 1) : tasks[j].pc # "start"
    /\ \E o \in TaskSteps(tasks[i], store) :
        /\ tasks' = [tasks EXCEPT ![i] = o.task]
        /\ store' = o.store
        /\ completed' = IF o.task.pc = "done" THEN Append(completed, i) ELSE completed
    /\ UNCHANGED <<txn, twitters, cmd, orphans, out>>

\* the provider answers a fetch
ProviderAnswers(i) ==
    /\ cmd.pc = "await"
    /\ AllStarted
    /\ tasks[i].pc = "fetch"
    /\ \E o \in TaskSteps(tasks[i], store) :
        /\ tasks' = [tasks EXCEPT ![i] = o.task]
        /\ store' = o.store
        /\ completed' = IF o.task.pc = "done" THEN Append(completed, i) ELSE completed
    /\ UNCHANGED <<txn, twitters, cmd, orphans, out>>

\* the media sizes arrive and the new Tweet is saved
MediaInfoDone(i) ==
    /\ cmd.pc = "await"
    /\ AllStarted
    /\ tasks[i].pc = "media"
    /\ \E o \in TaskSteps(tasks[i], store) :
        /\ tasks' = [tasks EXCEPT ![i] = o.task]
        /\ store' = o.store
        /\ completed' = Append(completed, i)
    /\ UNCHANGED <<txn, twitters, cmd, orphans, out>>

RemoveAt(q, i) == SubSeq(q, 1, i - 1) \o SubSeq(q, i + 1, Len(q))

\* a coroutine whose handler is gone takes its next step
OrphanStep(i) ==
    /\ \E o \in TaskSteps(orphans[i], store) :
        /\ orphans' = IF o.task.pc = "done" THEN RemoveAt(orphans, i)
                      ELSE [orphans EXCEPT ![i] = o.task]
        /\ store' = o.store
    /\ UNCHANGED <<txn, twitters, cmd, tasks, completed, out>>

\* one turn of "for future in as_completed(...)": await, found.add, send_tweet
ConsumeCompleted ==
    /\ cmd.kind = "tweet"
    /\ cmd.pc = "await"
    /\ AllStarted
    /\ completed # <<>>
    /\ LET r == tasks[Head(completed)].result
       IN  CASE r.kind = "raised" ->
                  /\ cmd' = [cmd EXCEPT !.pc = "done", !.error = r.error]
                  /\ tasks' = Abandoned(tasks)
                  /\ orphans' = orphans \o Unfinished(tasks)
                  /\ completed' = <<>>
                  /\ UNCHANGED <<store, out>>
             [] r.kind = "tweet" ->
                  LET sent == SendTweet(store, r.pk, store[r.pk], FALSE)
                  IN  /\ cmd' = [cmd EXCEPT !.found = @ \cup {r.tweet_id},
                                            !.consumed = @ + 1]
                      /\ out' = [out EXCEPT !.rendered =
                                    Append(@, Rendered(store, r.pk, sent.layout))]
                      /\ store' = sent.store
                      /\ completed' = Tail(completed)
                      /\ UNCHANGED <<tasks, orphans>>
             [] OTHER ->
                  /\ cmd' = [cmd EXCEPT !.consumed = @ + 1]
                  /\ completed' = Tail(completed)
                  /\ UNCHANGED <<store, tasks, orphans, out>>
    /\ UNCHANGED <<txn, twitters>>

\* after the loop: "No tweets found", or the summary of ids - found
FinishTweetCommand ==
    /\ cmd.kind = "tweet"
    /\ cmd.pc = "await"
    /\ cmd.consumed = Len(tasks)
    /\ cmd' = [cmd EXCEPT !.pc = "done"]
    /\ out' = IF cmd.found = {}
              THEN [out EXCEPT !.replies = Append(@, Reply("no_tweets_found", {}))]
              ELSE IF cmd.found # { IntVal(n) : n \in cmd.ids }
              THEN [out EXCEPT !.replies = Append(@,
                        Reply("some_not_found",
                              { n \in cmd.ids : IntVal(n) \notin cmd.found }))]
              ELSE out
    /\ UNCHANGED <<store, txn, twitters, tasks, completed, orphans>>

(***************************************************************************)
(* The timeline command: Bot.get_timeline, Twitter.get_timeline and        *)
(* Bot.send_latest_tweet.                                                  *)
(***************************************************************************)
NoTxn == [active |-> FALSE, saved |-> <<>>]

\* where(processed == False).order_by(created_at.desc()): the rows that may come first
Latest(s) ==
    { k \in 1..Len(s) :
        /\ ~s[k].processed
        /\ \A j \in 1..Len(s) : ~s[j].processed => s[j].created_at <= s[k].created_at }

\* Bot.get_timeline up to client.get_latest_timeline
StartTimelineCommand(u) ==
    /\ NoHandler
    /\ Len(orphans) <= MaxOrphans
    /\ completed' = <<>>
    /\ tasks' = <<>>
    /\ UNCHANGED <<store, txn, twitters, orphans>>
    /\ IF ~CheckLoggedIn(u)
       THEN /\ cmd' = [IdleCmd EXCEPT !.kind = "timeline", !.user = u, !.pc = "done"]
            /\ out' = [NoOutput EXCEPT !.replies = <<Reply("not_logged_in", {})>>]
       ELSE /\ cmd' = [IdleCmd EXCEPT !.kind = "timeline", !.user = u, !.pc = "page"]
            /\ out' = [NoOutput EXCEPT !.replies = <<Reply("progress", {})>>]

\* the provider's page arrives: with DATABASE.atomic(): gather(_process_tweet ...)
TimelinePage(page) ==
    /\ cmd.kind = "timeline"
    /\ cmd.pc = "page"
    /\ cmd' = [cmd EXCEPT !.pc = "await"]
    /\ txn' = [active |-> TRUE, saved |-> store]
    /\ tasks' = [i \in 1..Len(page) |-> ProcessTask(page[i])]
    /\ completed' = <<>>
    /\ UNCHANGED <<store, twitters, orphans, out>>

\* gather returned every result: commit, then send_latest_tweet
TimelineGathered ==
    /\ cmd.kind = "timeline"
    /\ cmd.pc = "await"
    /\ \A i \in 1..Len(tasks) : tasks[i].pc = "done" /\ tasks[i].result.kind # "raised"
    /\ txn' = NoTxn
    /\ completed' = <<>>
    /\ UNCHANGED <<twitters, tasks, orphans>>
    /\ IF Len(tasks) = 0 \/ Latest(store) = {}
       THEN /\ cmd' = [cmd EXCEPT !.pc = "done"]
            /\ out' = [out EXCEPT !.replies = <<Reply("no_tweets_found", {})>>]
            /\ store' = store
       ELSE \E k \in Latest(store) :
              LET sent == SendTweet(store, k, store[k], TRUE)
              IN  IF sent.ok
                  THEN /\ cmd' = [cmd EXCEPT !.pc = "done"]
                       /\ out' = [rendered |-> <<Rendered(store, k, sent.layout)>>,
                                  replies |-> <<Reply("controls", {store[k].tweet_id})>>]
                       /\ store' = sent.store
                  ELSE /\ cmd' = [cmd EXCEPT !.pc = "done", !.error = "ValueError"]
                       /\ out' = [out EXCEPT !.replies = <<>>]
                       /\ store' = store

\* gather raised the first exception: the transaction is rolled back
TimelineFailed ==
    /\ cmd.kind = "timeline"
    /\ cmd.pc = "await"
    /\ AllStarted
    /\ \E i \in 1..Len(tasks) : tasks[i].result.kind = "raised"
    /\ LET i == CHOOSE i \in 1..Len(tasks) : tasks[i].result.kind = "raised"
       IN  cmd' = [cmd EXCEPT !.pc = "done", !.error = tasks[i].result.error]
    /\ store' = txn.saved
    /\ txn' = NoTxn
    /\ tasks' = Abandoned(tasks)
    /\ orphans' = orphans \o Unfinished(tasks)
    /\ completed' = <<>>
    /\ UNCHANGED <<twitters, out>>

\* the handler returned (or its exception was logged): the next update is taken
HandlerReturns ==
    /\ cmd.pc = "done"
    /\ cmd' = IdleCmd
    /\ tasks' = <<>>
    /\ completed' = <<>>
    /\ out' = NoOutput
    /\ UNCHANGED <<store, txn, twitters, orphans>>

(***************************************************************************)
(* The control message of the paginator and the record of its handlers.    *)
(***************************************************************************)
\* no row: what first() and get_or_none() return when nothing matches
NoRow == [attachments |-> <<>>]

NoControl == [state |-> "none", tweet_id |-> 0, message_ids |-> {}, caption |-> 0]

\* an edit that changed the text and kept the inline keyboard
EditTextKeepsMarkup ==
    [state |-> "controls", tweet_id |-> control.tweet_id,
     message_ids |-> control.message_ids, caption |-> 0]

\* message.edit_text("No more tweets found"): no reply_markup, the buttons are gone
Terminal == [state |-> "terminal", tweet_id |-> 0, message_ids |-> {}, caption |-> 0]

\* send_tweet_manage_buttons: the caption of tweet k, buttons that carry k and ids
Controls(k, ids) == [state |-> "controls", tweet_id |-> k, message_ids |-> ids, caption |-> k]

\* answer: what query.answer was called with ("none": it was not called)
\* delete_if_unknown: data.get("delete_if_unknown", False)
NoPress ==
    [action |-> "", from |-> 0, outcome |-> "", error |-> "", answer |-> "none",
     delete_if_unknown |-> FALSE]

\* a handler that ran: the buttons' handlers run after query.answer(), the
\* command send_latest_tweet has no query to answer
Pressed(action, from, outcome) ==
    [action |-> action, from |-> from, outcome |-> outcome, error |-> "",
     answer |-> IF action = "send_latest_tweet" THEN "none" ELSE "answered",
     delete_if_unknown |-> FALSE]

\* a handler that answers and leaves the message where it is
MessageKept == control

\* message.delete() on the control message: its text and buttons are gone
Deleted == [control EXCEPT !.state = "deleted"]

\* callback data that names no button method: the object the library hands
\* over when it no longer knows the payload, a dict without the key
\* "action", and a dict whose action has no _button_ method
CallbackData ==
    { [kind |-> k, delete_if_unknown |-> d] :
        k \in {"InvalidCallbackData", "no_action", "unknown_action"}, d \in BOOLEAN }

PagerIdle ==
    /\ chat = {}
    /\ control = NoControl
    /\ press = NoPress
    /\ walk = <<>>

(***************************************************************************)
(* Users, session handles and the startup of the bot.  A User row records  *)
(* which of its twitter fields are set; a session handle is the Twitter    *)
(* object of Bot.twitters, told apart by the order of its construction.    *)
(***************************************************************************)
UserRows ==
    { [telegram_id |-> t, twitter_username |-> n, twitter_email |-> e,
       twitter_password |-> p, twitter_cookies |-> c] :
        t \in Users, n \in BOOLEAN, e \in BOOLEAN, p \in BOOLEAN,
        c \in {"null", "stored"} }

UserTables == UNION { [1..n -> UserRows] : n \in 0..MaxUsers }

\* user.twitter_username, user.twitter_email and user.twitter_password are all set
HasCredentials(user) ==
    user.twitter_username /\ user.twitter_email /\ user.twitter_password

\* user.twitter_cookies is set: "stored" in the table from the start, or
\* "fresh" from client.get_cookies() after a login with credentials
HasCookies(user) == user.twitter_cookies # "null"

\* the test of _get_logged_in_twitter that raises ValueError
MissingCredentials(user) == ~HasCredentials(user) \/ ~HasCookies(user)

\* Twitter(self.local_mode): the n-th object constructed, not logged in
NewTwitter(n) == [logged_in |-> FALSE, handle |-> n]

\* a lookup that constructs a Twitter object on every call
AlwaysNewTwitter(tw, id, n) ==
    [twitters |-> [k \in DOMAIN tw \cup {id} |->
                        IF k = id THEN NewTwitter(n + 1) ELSE tw[k]],
     handles |-> n + 1]

\* _get_twitter(user_id) on Bot.twitters tw after n constructions
GetTwitter(tw, id, n) ==
    IF id \in DOMAIN tw
    THEN [twitters |-> tw, handles |-> n]
    ELSE [twitters |-> [k \in DOMAIN tw \cup {id} |->
                            IF k = id THEN NewTwitter(n + 1) ELSE tw[k]],
          handles |-> n + 1]

\* a login that exchanges the credentials whenever the user has them
CredentialsFirst(tw, id, user, accepted) ==
    IF HasCredentials(user) /\ accepted
    THEN [twitters |-> [tw EXCEPT ![id].logged_in = TRUE],
          user |-> [user EXCEPT !.twitter_cookies = "fresh"],
          path |-> "credentials", raised |-> FALSE]
    ELSE [twitters |-> [tw EXCEPT ![id].logged_in = TRUE], user |-> user,
          path |-> "cookies", raised |-> FALSE]

\* Twitter.login_as_user(user) on the handle of id: with cookies they are set
\* on the client; without, Twitter.login exchanges the credentials (the
\* provider accepts them or client.login raises) and the client's cookies
\* are saved on the User
LoginAsUser(tw, id, user, accepted) ==
    IF HasCookies(user)
    THEN [twitters |-> [tw EXCEPT ![id].logged_in = TRUE], user |-> user,
          path |-> "cookies", raised |-> FALSE]
    ELSE IF accepted
    THEN [twitters |-> [tw EXCEPT ![id].logged_in = TRUE],
          user |-> [user EXCEPT !.twitter_cookies = "fresh"],
          path |-> "credentials", raised |-> FALSE]
    ELSE [twitters |-> tw, user |-> user, path |-> "credentials", raised |-> TRUE]

\* what the provider may do with the credentials of a user
Accepted(user) == IF HasCredentials(user) THEN BOOLEAN ELSE {FALSE}

\* no call yet.  from: "login", "auto_login" or "login_as_user"; user: the
\* row; path: how login_as_user logged in ("none": it was not called)
NoCall ==
    [from |-> "", user |-> 0, pc |-> "idle", error |-> "", handle |-> 0,
     created |-> FALSE, was_logged_in |-> FALSE, path |-> "none",
     cookies |-> "null", reply |-> ""]

\* post_init has not run
NoBoot == [pc |-> "post_init", todo |-> <<>>, error |-> "", notified |-> FALSE]

\* the bot is up
Started == [pc |-> "started", todo |-> <<>>, error |-> "", notified |-> TRUE]

LoginIdle ==
    /\ users = <<>>
    /\ handles = 0
    /\ call = NoCall
    /\ boot = Started

\* user 1 of the table was logged in with its cookies when the bot started
UserOneLoggedIn ==
    /\ users = <<[telegram_id |-> 1, twitter_username |-> TRUE, twitter_email |-> TRUE,
                  twitter_password |-> TRUE, twitter_cookies |-> "stored"]>>
    /\ handles = 1
    /\ call = NoCall
    /\ boot = Started

MediaIdle == media = [pc |-> "unused"]

RenderIdle == render = [pc |-> "unused"] /\ MediaIdle

(***************************************************************************)
(* The resolver's specification: the commands of a logged-in user 1 and of *)
(* a user 2 without a session, over a cache that may already hold tweet 7. *)
(***************************************************************************)
InitStores == {<<>>} \cup { <<NewTweet(tw)>> : tw \in ProviderTweets({Id7}) }

TextIdle ==
    /\ text = <<>>
    /\ matches = <<>>
    /\ textPc = "unused"

Init ==
    /\ TextIdle
    /\ PagerIdle
    /\ UserOneLoggedIn
    /\ RenderIdle
    /\ store \in InitStores
    /\ txn = NoTxn
    /\ twitters = [u \in {1} |-> [logged_in |-> TRUE, handle |-> 1]]
    /\ cmd = IdleCmd
    /\ tasks = <<>>
    /\ completed = <<>>
    /\ orphans = <<>>
    /\ out = NoOutput

Next ==
    \/ \E u \in Users, T \in CommandTexts : StartTweetCommand(u, T) /\ UNCHANGED <<textVars, pagerVars, loginVars, renderVars>>
    \/ \E u \in Users : StartTimelineCommand(u) /\ UNCHANGED <<textVars, pagerVars, loginVars, renderVars>>
    \/ \E page \in Pages : TimelinePage(page) /\ UNCHANGED <<textVars, pagerVars, loginVars, renderVars>>
    \/ \E i \in 1..Len(tasks) : TaskStart(i) /\ UNCHANGED <<textVars, pagerVars, loginVars, renderVars>>
    \/ \E i \in 1..Len(tasks) : ProviderAnswers(i) /\ UNCHANGED <<textVars, pagerVars, loginVars, renderVars>>
    \/ \E i \in 1..Len(tasks) : MediaInfoDone(i) /\ UNCHANGED <<textVars, pagerVars, loginVars, renderVars>>
    \/ \E i \in 1..Len(orphans) : OrphanStep(i) /\ UNCHANGED <<textVars, pagerVars, loginVars, renderVars>>
    \/ ConsumeCompleted /\ UNCHANGED <<textVars, pagerVars, loginVars, renderVars>>
    \/ FinishTweetCommand /\ UNCHANGED <<textVars, pagerVars, loginVars, renderVars>>
    \/ TimelineGathered /\ UNCHANGED <<textVars, pagerVars, loginVars, renderVars>>
    \/ TimelineFailed /\ UNCHANGED <<textVars, pagerVars, loginVars, renderVars>>
    \/ HandlerReturns /\ UNCHANGED <<textVars, pagerVars, loginVars, renderVars>>

Spec == Init /\ [][Next]_vars

(***************************************************************************)
(* The parser's specification: one call on each token.                     *)
(***************************************************************************)
ResolverIdle ==
    /\ store = <<>>
    /\ txn = NoTxn
    /\ twitters = <<>>
    /\ cmd = IdleCmd
    /\ tasks = <<>>
    /\ completed = <<>>
    /\ orphans = <<>>
    /\ out = NoOutput

InitText == TextInit /\ ResolverIdle /\ PagerIdle /\ LoginIdle /\ RenderIdle

NextText == CallGetTweetIdFromText /\ UNCHANGED <<resolverVars, pagerVars, loginVars, renderVars>>

SpecText == InitText /\ [][NextText]_vars

(***************************************************************************)
(* The timeline paginator: Bot.send_latest_tweet and the buttons of the    *)
(* control message (Bot.callback_query_handler and the button methods).    *)
(* One handler runs at a time and nothing else writes the table meanwhile, *)
(* so a handler is one step.                                               *)
(***************************************************************************)
\* the ids of n messages the chat platform sends: none that is live or listed
NewMessageIds(used, n) ==
    LET free == { i \in 1..(Cardinality(used) + n) : i \notin used }
    IN  { i \in free : Cardinality({ j \in free : j < i }) < n }

\* send_tweet's messages: one per attachment
MessageCount(tweet) == Len(tweet.attachments)

\* where(created_at < current.created_at, processed == False)
\* .order_by(created_at.desc()).first(): the rows that may come first
NextTweet(s, current) ==
    LET earlier == { k \in 1..Len(s) :
                        ~s[k].processed /\ s[k].created_at < s[current].created_at }
    IN  { k \in earlier : \A j \in earlier : s[j].created_at <= s[k].created_at }

\* where(created_at > current.created_at, processed == False)
\* .order_by(created_at.asc()).first()
PreviousTweet(s, current) ==
    LET later == { k \in 1..Len(s) :
                      ~s[k].processed /\ s[k].created_at > s[current].created_at }
    IN  { k \in later : \A j \in later : s[k].created_at <= s[j].created_at }

\* Tweet.update(processed=False).where(Tweet.processed == True).execute()
ResetAll(s) == [k \in 1..Len(s) |-> [s[k] EXCEPT !.processed = FALSE]]

\* tweet.processed = True; tweet.save()
MarkProcessed(s, k) == [s EXCEPT ![k].processed = TRUE]

\* _new_timeline_tweet(message, data, tweet) on table s: k is the row of the
\* tweet object (0: none was found) and tweet the object as it was loaded
NewTimelineTweet(action, s, k, tweet) ==
    LET remaining == chat \ control.message_ids
        ids == NewMessageIds(remaining \cup control.message_ids, MessageCount(tweet))
        sent == SendTweet(s, k, tweet, TRUE)
    IN  IF k = 0
        THEN /\ chat' = remaining
             /\ control' = Terminal
             /\ store' = s
             /\ press' = Pressed(action, control.tweet_id, "terminal")
        ELSE IF sent.ok
        THEN /\ chat' = remaining \cup ids
             /\ control' = Controls(k, ids)
             /\ store' = sent.store
             /\ press' = Pressed(action, control.tweet_id, "tweet")
        ELSE /\ chat' = remaining
             /\ control' = control
             /\ store' = s
             /\ press' = [Pressed(action, control.tweet_id, "raised")
                            EXCEPT !.error = "ValueError"]

\* the rows a select ... first() may return, 0 when there is none
FirstOf(S) == IF S = {} THEN {0} ELSE S

\* the object a query loaded for row k
Loaded(s, k) == IF k = 0 THEN NoRow ELSE s[k]

\* send_latest_tweet: the latest unprocessed tweet and a new control message
SendLatestTweet ==
    /\ control.state = "none"
    /\ \E k \in FirstOf(Latest(store)) :
        LET sent == SendTweet(store, k, Loaded(store, k), TRUE)
            ids == NewMessageIds(chat, MessageCount(Loaded(store, k)))
        IN  IF k = 0
            THEN /\ press' = Pressed("send_latest_tweet", 0, "no_tweets_found")
                 /\ UNCHANGED <<store, chat, control>>
            ELSE IF sent.ok
            THEN /\ chat' = chat \cup ids
                 /\ control' = Controls(k, ids)
                 /\ store' = sent.store
                 /\ press' = Pressed("send_latest_tweet", 0, "tweet")
            ELSE /\ press' = [Pressed("send_latest_tweet", 0, "raised")
                                EXCEPT !.error = "ValueError"]
                 /\ UNCHANGED <<store, chat, control>>
    /\ UNCHANGED <<txn, twitters, cmd, tasks, completed, orphans, out>>

\* callback_query_handler finds _button_<action> for a button of the control message
ButtonPressed == control.state = "controls"

\* _button_next_tweet
ButtonNextTweet ==
    /\ ButtonPressed
    /\ \E k \in FirstOf(NextTweet(store, control.tweet_id)) :
        NewTimelineTweet("next_tweet", store, k, Loaded(store, k))
    /\ UNCHANGED <<txn, twitters, cmd, tasks, completed, orphans, out>>

\* _button_previous_tweet
ButtonPreviousTweet ==
    /\ ButtonPressed
    /\ \E k \in FirstOf(PreviousTweet(store, control.tweet_id)) :
        NewTimelineTweet("previous_tweet", store, k, Loaded(store, k))
    /\ UNCHANGED <<txn, twitters, cmd, tasks, completed, orphans, out>>

\* _button_send_to_verus: the flag is saved, then _button_next_tweet
ButtonSendToVerus ==
    /\ ButtonPressed
    /\ LET marked == MarkProcessed(store, control.tweet_id)
       IN  \E k \in FirstOf(NextTweet(marked, control.tweet_id)) :
             NewTimelineTweet("send_to_verus", marked, k, Loaded(marked, k))
    /\ UNCHANGED <<txn, twitters, cmd, tasks, completed, orphans, out>>

\* _button_reset_progress: the tweet is loaded, then every flag is cleared,
\* then the loaded object is shown again
ButtonResetProgress ==
    /\ ButtonPressed
    /\ NewTimelineTweet("reset_progress", ResetAll(store), control.tweet_id,
                        store[control.tweet_id])
    /\ UNCHANGED <<txn, twitters, cmd, tasks, completed, orphans, out>>

\* _button_to_latest: without a tweet the message is edited and nothing is deleted
ButtonToLatest ==
    /\ ButtonPressed
    /\ \E k \in FirstOf(Latest(store)) :
        IF k = 0
        THEN /\ control' = Terminal
             /\ press' = Pressed("to_latest", control.tweet_id, "terminal")
             /\ UNCHANGED <<store, chat>>
        ELSE NewTimelineTweet("to_latest", store, k, store[k])
    /\ UNCHANGED <<txn, twitters, cmd, tasks, completed, orphans, out>>

\* an unknown action that always deletes the message
DeleteAlways(data) == Deleted

\* if data.get("delete_if_unknown", False): query.message.delete()
DeleteIfUnknown(data) == IF data.delete_if_unknown THEN Deleted ELSE control

\* callback_query_handler on callback data without a button method: "action"
\* not in data raises TypeError (the test itself raises it on an
\* InvalidCallbackData object), which is caught, answered and followed by
\* the deletion of the message; an unknown action is answered with a text
\* and deletes the message when the data asks for it
ButtonOtherData ==
    /\ ButtonPressed
    /\ \E data \in CallbackData :
        IF data.kind \in {"InvalidCallbackData", "no_action"}
        THEN /\ control' = Deleted
             /\ press' = [action |-> data.kind, from |-> control.tweet_id,
                          outcome |-> "deleted", error |-> "", answer |-> "answered",
                          delete_if_unknown |-> data.delete_if_unknown]
        ELSE /\ control' = DeleteIfUnknown(data)
             /\ press' = [action |-> data.kind, from |-> control.tweet_id,
                          outcome |-> "unknown", error |-> "",
                          answer |-> "Unknown action",
                          delete_if_unknown |-> data.delete_if_unknown]
    /\ UNCHANGED <<store, chat, txn, twitters, cmd, tasks, completed, orphans, out>>

(***************************************************************************)
(* The paginator's specification: a table of up to MaxTweets tweets with   *)
(* any creation times, flags and attachment counts, and either no control  *)
(* message yet or one that shows a tweet of the table.  The rows are taken *)
(* in one order of their contents: the handlers do not depend on the order *)
(* of the primary keys.                                                    *)
(***************************************************************************)
AttachmentCounts == {0, 1, 2}

PagerIds == <<"1", "2", "3", "4", "5", "6", "7", "8", "9">>

PagerRows ==
    { [created_at |-> t, processed |-> p, media |-> m] :
        t \in 1..MaxTime, p \in BOOLEAN, m \in AttachmentCounts }

RowKey(r) == r.created_at * 100 + (IF r.processed THEN 10 ELSE 0) + r.media

PagerTables ==
    { rows \in UNION { [1..n -> PagerRows] : n \in 0..MaxTweets } :
        \A i \in 1..(Len(rows) - 1) : RowKey(rows[i]) <= RowKey(rows[i + 1]) }

\* the stored Tweet of a row; the tweet the control message shows was sent
PagerTweet(rows, k, shown) ==
    [tweet_id |-> <<PagerIds[k]>>, text |-> 1, created_at |-> rows[k].created_at,
     user |-> 1,
     attachments |-> [i \in 1..rows[k].media |-> [telegram_data |-> k = shown]],
     processed |-> rows[k].processed]

InitPager ==
    /\ TextIdle
    /\ LoginIdle
    /\ RenderIdle
    /\ txn = NoTxn
    /\ twitters = <<>>
    /\ cmd = IdleCmd
    /\ tasks = <<>>
    /\ completed = <<>>
    /\ orphans = <<>>
    /\ out = NoOutput
    /\ press = NoPress
    /\ walk = <<>>
    /\ \E rows \in PagerTables :
        \E shown \in {0} \cup { k \in 1..Len(rows) : rows[k].media > 0 } :
            /\ store = [k \in 1..Len(rows) |-> PagerTweet(rows, k, shown)]
            /\ chat = IF shown = 0 THEN {} ELSE NewMessageIds({}, rows[shown].media)
            /\ control = IF shown = 0 THEN NoControl ELSE Controls(shown, chat)

NextPager ==
    \/ SendLatestTweet /\ UNCHANGED <<textVars, loginVars, renderVars, walk>>
    \/ ButtonNextTweet /\ UNCHANGED <<textVars, loginVars, renderVars, walk>>
    \/ ButtonPreviousTweet /\ UNCHANGED <<textVars, loginVars, renderVars, walk>>
    \/ ButtonSendToVerus /\ UNCHANGED <<textVars, loginVars, renderVars, walk>>
    \/ ButtonResetProgress /\ UNCHANGED <<textVars, loginVars, renderVars, walk>>
    \/ ButtonToLatest /\ UNCHANGED <<textVars, loginVars, renderVars, walk>>
    \/ ButtonOtherData /\ UNCHANGED <<textVars, loginVars, renderVars, walk>>

SpecPager == InitPager /\ [][NextPager]_vars

(***************************************************************************)
(* The walk through the timeline: to_latest (or the latest-tweet command), *)
(* then next after next, on a table nothing else writes.  walk lists the   *)
(* tweets the control message showed, with 0 for the terminal text.        *)
(***************************************************************************)
\* what the handler that just ran adds to the walk
Walked ==
    IF press'.action \in {"to_latest", "send_latest_tweet"}
    THEN IF press'.outcome = "tweet" THEN <<control'.tweet_id>> ELSE <<>>
    ELSE IF walk = <<>> \/ press'.outcome = "raised" THEN walk
    ELSE IF press'.outcome = "tweet" THEN Append(walk, control'.tweet_id)
    ELSE Append(walk, 0)

NextWalk ==
    \/ SendLatestTweet /\ walk' = Walked /\ UNCHANGED <<textVars, loginVars, renderVars>>
    \/ ButtonToLatest /\ walk' = Walked /\ UNCHANGED <<textVars, loginVars, renderVars>>
    \/ ButtonNextTweet /\ walk' = Walked /\ UNCHANGED <<textVars, loginVars, renderVars>>

SpecWalk == InitPager /\ [][NextWalk]_vars

(***************************************************************************)
(* Send to Verus pressed again and again on a control message that shows   *)
(* any tweet of the table.  walk lists, for each press, whether it changed *)
(* the flag of the tweet on display and what the control message showed    *)
(* afterwards (0: the terminal text).                                      *)
(***************************************************************************)
\* presses counted in a walk: one more than a walk without exceptions takes
MaxPresses == MaxTweets + 1

Marked ==
    Append(walk, [flipped |-> ~store[control.tweet_id].processed,
                  shown |-> IF control'.state = "controls" THEN control'.tweet_id ELSE 0])

NextMark ==
    /\ Len(walk) < MaxPresses
    /\ ButtonSendToVerus
    /\ walk' = Marked
    /\ UNCHANGED <<textVars, loginVars, renderVars>>

SpecMark == InitPager /\ [][NextMark]_vars

(***************************************************************************)
(* The login command and the startup.  _get_logged_in_twitter is two       *)
(* steps, the handle _get_twitter returns and the login on it; nothing     *)
(* else runs between them.                                                 *)
(***************************************************************************)
tweetVars == <<store, txn, cmd, tasks, completed, orphans, out>>

\* _get_logged_in_twitter(users[u]) up to the handle that _get_twitter returns
GetLoggedInTwitter(from, u) ==
    LET user == users[u]
        got == GetTwitter(twitters, user.telegram_id, handles)
    IN  IF MissingCredentials(user)
        THEN /\ call' = [NoCall EXCEPT !.from = from, !.user = u, !.pc = "raised",
                                       !.error = "ValueError",
                                       !.cookies = user.twitter_cookies]
             /\ UNCHANGED <<twitters, handles>>
        ELSE /\ got.handles <= MaxHandles
             /\ twitters' = got.twitters
             /\ handles' = got.handles
             /\ call' = [NoCall EXCEPT
                            !.from = from, !.user = u, !.pc = "got_twitter",
                            !.handle = got.twitters[user.telegram_id].handle,
                            !.created = (got.handles # handles),
                            !.was_logged_in = got.twitters[user.telegram_id].logged_in,
                            !.cookies = user.twitter_cookies]

\* the call ends with the result r of the login; an exception leaves
\* auto_login and post_init, a return lets auto_login go on
LoginEnds(r) ==
    /\ twitters' = r.twitters
    /\ users' = [users EXCEPT ![call.user] = r.user]
    /\ call' = [call EXCEPT
                    !.pc = IF r.raised THEN "raised" ELSE "returned",
                    !.path = r.path,
                    !.error = IF r.raised THEN "client.login" ELSE "",
                    !.reply = IF ~r.raised /\ call.from = "login"
                              THEN "Logged in as user" ELSE ""]
    /\ boot' = IF call.from # "auto_login" THEN boot
               ELSE IF r.raised
               THEN [boot EXCEPT !.pc = "aborted", !.error = "client.login"]
               ELSE [boot EXCEPT !.todo = Tail(@)]
    /\ UNCHANGED handles

\* _get_logged_in_twitter from the handle on: login_as_user unless logged in
EnsureLoggedIn ==
    /\ call.pc = "got_twitter"
    /\ LET user == users[call.user]
           id == user.telegram_id
       IN  IF twitters[id].logged_in
           THEN LoginEnds([twitters |-> twitters, user |-> user,
                           path |-> "none", raised |-> FALSE])
           ELSE \E accepted \in Accepted(user) :
                    LoginEnds(LoginAsUser(twitters, id, user, accepted))
    /\ UNCHANGED tweetVars

\* the login command of telegram user t
Login(t) ==
    /\ boot.pc = "started"
    /\ call.pc # "got_twitter"
    /\ LET rows == { u \in 1..Len(users) : users[u].telegram_id = t }
       IN  IF rows = {}
           THEN /\ call' = [NoCall EXCEPT !.from = "login", !.pc = "returned",
                                          !.reply = "You are not registered."]
                /\ UNCHANGED <<twitters, handles>>
           ELSE \E u \in rows : GetLoggedInTwitter("login", u)
    /\ UNCHANGED <<users, boot, tweetVars>>

\* User.select().where(User.twitter_cookies.is_null(False)): the rows in order
WithCookies(U) ==
    SelectSeq([i \in 1..Len(U) |-> i], LAMBDA i : U[i].twitter_cookies # "null")

\* post_init up to the loop of auto_login
PostInit ==
    /\ boot.pc = "post_init"
    /\ boot' = [boot EXCEPT !.pc = "auto_login", !.todo = WithCookies(users)]
    /\ UNCHANGED <<users, twitters, handles, call, tweetVars>>

\* auto_login: the next user of the loop; ValueError leaves the loop and post_init
AutoLogin ==
    /\ boot.pc = "auto_login"
    /\ boot.todo # <<>>
    /\ call.pc # "got_twitter"
    /\ GetLoggedInTwitter("auto_login", Head(boot.todo))
    /\ boot' = IF MissingCredentials(users[Head(boot.todo)])
               THEN [boot EXCEPT !.pc = "aborted", !.error = "ValueError"]
               ELSE boot
    /\ UNCHANGED <<users, tweetVars>>

\* post_init after auto_login: "Sklad Started" to the admins
PostInitNotifies ==
    /\ boot.pc = "auto_login"
    /\ boot.todo = <<>>
    /\ boot' = [boot EXCEPT !.pc = "started", !.notified = TRUE]
    /\ UNCHANGED <<users, twitters, handles, call, tweetVars>>

\* Twitter.login_as_user(users[u]) on the handle of the user
CallLoginAsUser(u) ==
    /\ call.pc # "got_twitter"
    /\ users[u].telegram_id \in DOMAIN twitters
    /\ \E accepted \in Accepted(users[u]) :
        LET id == users[u].telegram_id
            r == LoginAsUser(twitters, id, users[u], accepted)
        IN  /\ twitters' = r.twitters
            /\ users' = [users EXCEPT ![u] = r.user]
            /\ call' = [NoCall EXCEPT
                            !.from = "login_as_user", !.user = u,
                            !.pc = IF r.raised THEN "raised" ELSE "returned",
                            !.error = IF r.raised THEN "client.login" ELSE "",
                            !.handle = twitters[id].handle,
                            !.was_logged_in = twitters[id].logged_in,
                            !.path = r.path,
                            !.cookies = users[u].twitter_cookies]
    /\ UNCHANGED <<handles, boot, tweetVars>>

(***************************************************************************)
(* The startup's specification: any User table, no handle yet, post_init   *)
(* about to run, and login commands once the bot is up.                    *)
(***************************************************************************)
InitLogin ==
    /\ TextIdle
    /\ PagerIdle
    /\ RenderIdle
    /\ ResolverIdle
    /\ users \in UserTables
    /\ handles = 0
    /\ call = NoCall
    /\ boot = NoBoot

NextLogin ==
    \/ PostInit /\ UNCHANGED <<textVars, pagerVars, renderVars>>
    \/ AutoLogin /\ UNCHANGED <<textVars, pagerVars, renderVars>>
    \/ EnsureLoggedIn /\ UNCHANGED <<textVars, pagerVars, renderVars>>
    \/ PostInitNotifies /\ UNCHANGED <<textVars, pagerVars, renderVars>>
    \/ \E t \in Users : Login(t) /\ UNCHANGED <<textVars, pagerVars, renderVars>>

SpecLogin == InitLogin /\ [][NextLogin]_vars

(***************************************************************************)
(* The session's specification: any User table and any handles, logged in  *)
(* or not, on which _get_logged_in_twitter and login_as_user are called.   *)
(***************************************************************************)
\* Bot.twitters with a handle for each id of S
Sessions(S) ==
    { [id \in S |-> [logged_in |-> l[id],
                     handle |-> Cardinality({ j \in S : j <= id })]] :
        l \in [S -> BOOLEAN] }

InitSession ==
    /\ TextIdle
    /\ PagerIdle
    /\ RenderIdle
    /\ store = <<>>
    /\ txn = NoTxn
    /\ cmd = IdleCmd
    /\ tasks = <<>>
    /\ completed = <<>>
    /\ orphans = <<>>
    /\ out = NoOutput
    /\ users \in UserTables
    /\ \E S \in SUBSET Users :
        /\ twitters \in Sessions(S)
        /\ handles = Cardinality(S)
    /\ call = NoCall
    /\ boot = Started

NextSession ==
    \/ \E t \in Users : Login(t) /\ UNCHANGED <<textVars, pagerVars, renderVars>>
    \/ EnsureLoggedIn /\ UNCHANGED <<textVars, pagerVars, renderVars>>
    \/ \E u \in 1..Len(users) : CallLoginAsUser(u) /\ UNCHANGED <<textVars, pagerVars, renderVars>>

SpecSession == InitSession /\ [][NextSession]_vars

(***************************************************************************)
(* The renderer's specification: send_tweet called once, with and without  *)
(* the caption, on a stored tweet of up to MaxAttachments attachments of   *)
(* any kind.                                                               *)
(***************************************************************************)
\* the TwitterMedia that get_relevant_media_info stores
Attachments ==
    { [type |-> t, large |-> l, telegram_data |-> d] :
        t \in {"photo", "video", "gif"}, l \in BOOLEAN, d \in BOOLEAN }

RenderTweets ==
    { [tweet_id |-> Id7, text |-> 1, created_at |-> 1, user |-> 1,
       attachments |-> a, processed |-> p] :
        a \in UNION { [1..n -> Attachments] : n \in 0..MaxAttachments },
        p \in BOOLEAN }

\* send_tweet(tweet, message, no_caption) on the tweet of row 1
CallSendTweet(no_caption) ==
    /\ render.pc = "input"
    /\ render' = [pc |-> "returned", no_caption |-> no_caption,
                  attachments |-> Len(store[1].attachments),
                  layout |-> SendTweet(store, 1, store[1], no_caption).layout,
                  sent |-> Messages(store[1], no_caption)]
    /\ store' = SendTweet(store, 1, store[1], no_caption).store
    /\ UNCHANGED <<txn, twitters, cmd, tasks, completed, orphans, out>>

InitRender ==
    /\ TextIdle
    /\ PagerIdle
    /\ LoginIdle
    /\ \E tweet \in RenderTweets : store = <<tweet>>
    /\ txn = NoTxn
    /\ twitters = <<>>
    /\ cmd = IdleCmd
    /\ tasks = <<>>
    /\ completed = <<>>
    /\ orphans = <<>>
    /\ out = NoOutput
    /\ render = [pc |-> "input"]
    /\ MediaIdle

NextRender ==
    \E no_caption \in BOOLEAN :
        CallSendTweet(no_caption) /\ UNCHANGED <<textVars, pagerVars, loginVars, media>>

SpecRender == InitRender /\ [][NextRender]_vars

(***************************************************************************)
(* Sending a tweet again.  An upload reference names the file of the       *)
(* chat platform, and a file is known by the message that uploaded it.     *)
(* Every send loads the Tweet from the table.                              *)
(***************************************************************************)
\* _get_telegram_obj(attachment): the file of the reference, 0 without one
TelegramObj(a) == IF a.telegram_data THEN a.file ELSE 0

\* photo=telegram_obj or attachment["url"] (likewise video, animation and
\* the InputMedia of a group): what each media message is made from
MediaSources(tweet) ==
    [i \in 1..Len(tweet.attachments) |->
        IF TelegramObj(tweet.attachments[i]) # 0
        THEN [from |-> "telegram_data", file |-> tweet.attachments[i].file]
        ELSE [from |-> "url", file |-> 0]]

\* references taken from the messages in the opposite order
CacheReversed(tweet, ids) ==
    [tweet EXCEPT !.attachments =
        [i \in 1..Len(tweet.attachments) |->
            IF tweet.attachments[i].telegram_data THEN tweet.attachments[i]
            ELSE [tweet.attachments[i] EXCEPT
                    !.telegram_data = TRUE,
                    !.file = ids[Len(tweet.attachments) + 1 - i]]]]

\* attachment["telegram_data"] = message.photo[0].to_dict() (video,
\* animation) where there was no reference; in a group attachment and
\* message are paired by zip(attachments, messages)
CacheReferences(tweet, ids) ==
    [tweet EXCEPT !.attachments =
        [i \in 1..Len(tweet.attachments) |->
            IF tweet.attachments[i].telegram_data THEN tweet.attachments[i]
            ELSE [tweet.attachments[i] EXCEPT !.telegram_data = TRUE,
                                              !.file = ids[i]]]]

\* send_tweet(tweet, message, no_caption) on the tweet loaded from row 1;
\* the media messages get the ids after the last one sent
SendTweetAgain(no_caption) ==
    /\ render.pc \in {"input", "returned"}
    /\ render.sends < MaxSends
    /\ LET tweet == store[1]
           n == Len(tweet.attachments)
           ids == [i \in 1..n |-> render.last + i]
           raised == no_caption /\ n = 0
       IN  /\ render' = [pc |-> "returned", sends |-> render.sends + 1,
                         last |-> IF raised THEN render.last ELSE render.last + n,
                         no_caption |-> no_caption,
                         error |-> IF raised THEN "ValueError" ELSE "",
                         before |-> tweet.attachments,
                         media |-> IF raised THEN <<>> ELSE MediaSources(tweet),
                         ids |-> IF raised THEN <<>> ELSE ids]
           /\ store' = IF n = 0 THEN store
                       ELSE [store EXCEPT ![1] = CacheReferences(tweet, ids)]
    /\ UNCHANGED <<txn, twitters, cmd, tasks, completed, orphans, out>>

\* a tweet that was never sent: no attachment has a reference
UnsentTweets ==
    { [tweet_id |-> Id7, text |-> 1, created_at |-> 1, user |-> 1,
       attachments |-> [i \in DOMAIN a |->
            [type |-> a[i].type, large |-> a[i].large,
             telegram_data |-> FALSE, file |-> 0]],
       processed |-> p] :
        a \in UNION { [1..n -> Attachments] : n \in 0..MaxAttachments },
        p \in BOOLEAN }

InitResend ==
    /\ TextIdle
    /\ PagerIdle
    /\ LoginIdle
    /\ \E tweet \in UnsentTweets : store = <<tweet>>
    /\ txn = NoTxn
    /\ twitters = <<>>
    /\ cmd = IdleCmd
    /\ tasks = <<>>
    /\ completed = <<>>
    /\ orphans = <<>>
    /\ out = NoOutput
    /\ render = [pc |-> "input", sends |-> 0, last |-> 0]
    /\ MediaIdle

NextResend ==
    \E no_caption \in BOOLEAN :
        SendTweetAgain(no_caption) /\ UNCHANGED <<textVars, pagerVars, loginVars, media>>

SpecResend == InitResend /\ [][NextResend]_vars

(***************************************************************************)
(* Media normalization (Twitter._get_relevant_media_info).  A photo URL is *)
(* its file name, split in stem and suffix, and its query; a variant URL   *)
(* of a video is known by its last but one path segment, a string.         *)
(***************************************************************************)
NoQuery == [name |-> "", format |-> ""]

\* URL.with_query({"name": size, "format": format}): a new URL
WithQuery(url, size, format) == [url EXCEPT !.query = [name |-> size, format |-> format]]

\* URL.with_name(Path(url.name).stem + "." + format): a new URL, without query
WithName(url, format) == [url EXCEPT !.suffix = format, !.query = NoQuery]

\* _custom_img_url: both new URLs are dropped, the URL passed in is returned
CustomImgUrl(url, size, format) ==
    LET queried == WithQuery(url, size, format)
        named == WithName(url, format)
    IN  url

\* the strings before and after the first "x" of a segment
BeforeX(seg) ==
    SubSeq(seg, 1, (CHOOSE i \in 1..Len(seg) :
                        seg[i] = "x" /\ \A j \in 1..(i - 1) : seg[j] # "x") - 1)

AfterX(seg) ==
    SubSeq(seg, (CHOOSE i \in 1..Len(seg) :
                    seg[i] = "x" /\ \A j \in 1..(i - 1) : seg[j] # "x") + 1, Len(seg))

\* what the probe of the media size may answer, in MB
MediaSizes == {1, 51}

\* _get_relevant_media_info(attachment) when the size probe answers size;
\* [type |-> "None"] is the None of an unknown type
GetRelevantMediaInfo(attachment, size) ==
    IF attachment.type = "photo"
    THEN [type |-> "photo",
          url |-> CustomImgUrl(attachment.media_url_https, "medium", "jpg"),
          width |-> attachment.sizes_medium.w, height |-> attachment.sizes_medium.h,
          thumbnail_url |-> CustomImgUrl(attachment.media_url_https, "medium", "jpg"),
          telegram_data |-> FALSE, size |-> size, duration |-> "None"]
    ELSE IF attachment.type = "video"
    THEN LET url == attachment.variants[Len(attachment.variants)]
         IN  [type |-> "video", url |-> url,
              width |-> PyInt(BeforeX(url.segment)),
              height |-> PyInt(AfterX(url.segment)),
              thumbnail_url |-> attachment.media_url_https,
              telegram_data |-> FALSE, size |-> size,
              duration |-> attachment.duration_millis \div 1000]
    ELSE IF attachment.type = "animated_gif"
    THEN [type |-> "gif", url |-> attachment.variants[Len(attachment.variants)],
          width |-> attachment.original_info.w, height |-> attachment.original_info.h,
          thumbnail_url |-> "", telegram_data |-> FALSE, size |-> size,
          duration |-> "None"]
    ELSE [type |-> "None"]

\* the provider's attachments
Dimensions == {<<"1">>, <<"2", "0">>, <<"0", "3">>}

PhotoUrls == { [stem |-> "a", suffix |-> x, query |-> NoQuery] : x \in {"jpg", "png"} }

VariantUrls ==
    { [segment |-> w \o <<"x">> \o h, file |-> "v"] : w \in Dimensions, h \in Dimensions }

ProviderMedia ==
    { [type |-> "photo", media_url_https |-> u, sizes_medium |-> [w |-> w, h |-> h]] :
        u \in PhotoUrls, w \in {<<"1">>}, h \in {<<"1">>, <<"2">>} }
    \cup
    { [type |-> t, media_url_https |-> u, variants |-> v, duration_millis |-> d,
       original_info |-> [w |-> <<"1">>, h |-> <<"2">>]] :
        t \in {"video", "animated_gif"}, u \in PhotoUrls,
        v \in UNION { [1..n -> VariantUrls] : n \in 1..MaxVariants },
        d \in {0, 1500} }
    \cup
    { [type |-> "unknown"] }

CallGetRelevantMediaInfo ==
    /\ media.pc = "input"
    /\ \E size \in MediaSizes :
        media' = [pc |-> "returned", attachment |-> media.attachment,
                  result |-> GetRelevantMediaInfo(media.attachment, size)]
    /\ UNCHANGED render

InitMedia ==
    /\ TextIdle
    /\ PagerIdle
    /\ LoginIdle
    /\ ResolverIdle
    /\ render = [pc |-> "unused"]
    /\ \E attachment \in ProviderMedia : media = [pc |-> "input", attachment |-> attachment]

NextMedia == CallGetRelevantMediaInfo /\ UNCHANGED <<textVars, resolverVars, pagerVars, loginVars>>

SpecMedia == InitMedia /\ [][NextMedia]_vars

(***************************************************************************)
(* Properties of the resolver (specification Spec).                        *)
(***************************************************************************)
TaskIds == 1..Len(tasks)

\* C1: the table holds at most one row per provider id, and a resolution
\* (by id or of a timeline entry) of an id that was stored when it began
\* inserts nothing and returns that stored row.
C1_OneRecordPerId ==
    /\ \A j, k \in 1..Len(store) : store[j].tweet_id = store[k].tweet_id => j = k
    /\ \A i \in TaskIds :
        (tasks[i].pc = "done" /\ tasks[i].cached_pk # 0) =>
            /\ ~tasks[i].inserted
            /\ tasks[i].result = ReturnTweet(tasks[i].cached_pk, IntVal(tasks[i].id))

C1_Witness ==
    /\ Len(store) = 2
    /\ \E i, j \in TaskIds :
        /\ tasks[i].kind = "process" /\ tasks[i].pc = "done" /\ tasks[i].cached_pk # 0
        /\ tasks[j].kind = "process" /\ tasks[j].pc = "done" /\ tasks[j].inserted

\* C2: two concurrent resolutions of one id that was not stored when either
\* began: exactly one inserts, the other returns the inserted row, and
\* neither raises.
C2_AtomicCheckThenInsert ==
    \A i, j \in TaskIds :
        ( /\ i # j
          /\ tasks[i].id = tasks[j].id
          /\ tasks[i].pc = "done" /\ tasks[j].pc = "done"
          /\ tasks[i].cached_pk = 0 /\ tasks[j].cached_pk = 0
          /\ tasks[i].answer = "tweet" /\ tasks[j].answer = "tweet" ) =>
            /\ tasks[i].result.kind = "tweet"
            /\ tasks[j].result.kind = "tweet"
            /\ tasks[i].inserted # tasks[j].inserted
            /\ tasks[i].result.pk = tasks[j].result.pk

\* a row is stored once its insert is committed
Committed == IF txn.active THEN txn.saved ELSE store

\* text, author, creation time and the attachments of a row (not the upload
\* references a send caches on them)
Content(row) ==
    [tweet_id |-> row.tweet_id, text |-> row.text, user |-> row.user,
     created_at |-> row.created_at, attachments |-> Len(row.attachments)]

\* C3: a resolution by id of an id that was stored when it began makes no
\* provider call; and no step changes the text, author, creation time or
\* attachments of a stored row, or removes it.
C3_CacheIsAuthoritative ==
    /\ [](\A i \in TaskIds :
            (tasks[i].kind = "by_id" /\ tasks[i].cached_pk # 0) => tasks[i].fetches = 0)
    /\ [][\A k \in 1..Len(Committed) :
            /\ k <= Len(store')
            /\ Content(store'[k]) = Content(Committed[k])]_vars

C3_Witness ==
    \E i \in TaskIds :
        /\ tasks[i].kind = "by_id" /\ tasks[i].pc = "done"
        /\ tasks[i].cached_pk \in 1..Len(store)
        /\ tasks[i].fetches = 0
        /\ \E a \in 1..Len(store[tasks[i].cached_pk].attachments) :
              store[tasks[i].cached_pk].attachments[a].telegram_data

\* C4: when the provider reports the tweet unavailable the resolution
\* returns None: it raises nothing and inserts nothing, and a command whose
\* resolutions all ended so ends without an exception.
C4_UnavailableIsNone ==
    /\ \A i \in TaskIds :
        tasks[i].answer = "unavailable" =>
            /\ tasks[i].pc = "done"
            /\ tasks[i].result = ReturnNone
            /\ ~tasks[i].inserted
    /\ ( /\ cmd.pc = "done"
         /\ TaskIds # {}
         /\ \A i \in TaskIds : tasks[i].answer = "unavailable" ) => cmd.error = ""

C4_Witness ==
    /\ cmd.pc = "done"
    /\ \E i \in TaskIds : tasks[i].answer = "unavailable" /\ tasks[i].id \in ProviderIds

\* C5: a resolution by id of an id above 2**63 - 1 returns None without a
\* storage lookup and without a provider fetch.
C5_TooLargeShortCircuits ==
    \A i \in TaskIds :
        ( /\ tasks[i].kind = "by_id"
          /\ tasks[i].pc = "done"
          /\ IntGreater(tasks[i].id, SqliteMaxInteger) ) =>
            /\ tasks[i].result = ReturnNone
            /\ tasks[i].lookups = 0
            /\ tasks[i].fetches = 0

\* the ids of the tasks that returned a Tweet
ResolvedIds == { tasks[i].id : i \in { j \in TaskIds : tasks[j].result.kind = "tweet" } }

\* C7: a tweet command over a non-empty set of ids whose resolutions all
\* returned ends with exactly: one "No tweets found" when none resolved, one
\* summary of exactly the unresolved ids when some resolved, nothing when
\* all resolved; and no such reply is sent while a resolution is pending.
C7_BatchOutcome ==
    /\ ( /\ cmd.kind = "tweet" /\ cmd.pc = "done"
         /\ cmd.ids # {} /\ cmd.error = "" ) =>
            out.replies =
                IF ResolvedIds = {} THEN <<Reply("no_tweets_found", {})>>
                ELSE IF ResolvedIds # cmd.ids
                     THEN <<Reply("some_not_found", cmd.ids \ ResolvedIds)>>
                     ELSE <<>>
    /\ ( /\ cmd.kind = "tweet" /\ cmd.ids # {}
         /\ out.replies # <<>> ) => \A i \in TaskIds : tasks[i].pc = "done"

\* the ids a token of CommandTokens stands for
DenotedBy(token) ==
    IF token \in {Id7, UrlOf(<<"0", "7">>)} THEN {Id7}
    ELSE IF token \in {<<"x">>, <<SuperscriptTwo>>} THEN {}
    ELSE {token}

\* C8: a tweet command resolves the set of ids its tokens denote, one
\* resolution per id, tokens without an id left out; and every id whose
\* resolution returned a Tweet is rendered exactly once, nothing else is.
C8_BatchDedup ==
    ( cmd.kind = "tweet" /\ cmd.pc = "done" /\ cmd.ids # {} ) =>
        /\ cmd.ids = UNION { DenotedBy(t) : t \in cmd.tokens }
        /\ Len(tasks) = Cardinality(cmd.ids)
        /\ { tasks[i].id : i \in TaskIds } = cmd.ids
        /\ \A i \in TaskIds :
            tasks[i].result.kind = "tweet" =>
                Cardinality({ r \in 1..Len(out.rendered) :
                                out.rendered[r].pk = tasks[i].result.pk }) = 1
        /\ \A r \in 1..Len(out.rendered) :
            \E i \in TaskIds :
                /\ tasks[i].result.kind = "tweet"
                /\ tasks[i].result.pk = out.rendered[r].pk

\* the fetches of the handler's tasks so far
ProviderFetches == { i \in TaskIds : tasks[i].fetches > 0 }

\* what the handler that began last has said and done is one reply of this kind
OnlyReply(kind) ==
    /\ cmd.pc = "done"
    /\ cmd.error = ""
    /\ out = [NoOutput EXCEPT !.replies = <<Reply(kind, {})>>]
    /\ tasks = <<>>
    /\ ProviderFetches = {}

\* the users whose Twitter exists and is logged in
LoggedIn == { u \in DOMAIN twitters : twitters[u].logged_in }

\* C25: a timeline or tweet command of a user without a logged-in Twitter
\* is answered with the not-logged-in reply and nothing else: nothing is
\* fetched, no Twitter is made, no row changes; and a tweet command of a
\* logged-in user whose tokens yield no id is answered with the invalid-id
\* reply and nothing else.
C25_InputErrorsOnlyReply ==
    /\ [](cmd.kind \in {"timeline", "tweet"} =>
            /\ cmd.user \notin LoggedIn => OnlyReply("not_logged_in")
            /\ ( /\ cmd.kind = "tweet"
                 /\ cmd.user \in LoggedIn
                 /\ CommandMatches(cmd.tokens) = {} ) =>
                    OnlyReply("invalid"))
    /\ [][(cmd' # cmd /\ cmd'.kind \in {"timeline", "tweet"} /\ cmd'.user \notin LoggedIn) =>
            /\ store' = store
            /\ twitters' = twitters]_vars

C25_Witness ==
    /\ cmd.kind = "tweet"
    /\ cmd.user \notin LoggedIn
    /\ Id7 \in cmd.tokens
    /\ out.replies = <<Reply("not_logged_in", {})>>

(***************************************************************************)
(* Properties of the parser (specification SpecText).                      *)
(***************************************************************************)
\* t is a string of decimal digits between leading and trailing blanks: that string
NumericCore(t) ==
    { SubSeq(t, ab[1], ab[2]) : ab \in
        { ab \in (1..Len(t)) \X (1..Len(t)) :
            /\ ab[1] <= ab[2]
            /\ \A i \in 1..Len(t) :
                IF i \in ab[1]..ab[2] THEN t[i] \in Decimals ELSE t[i] \in Whitespace } }

\* the numbers n of the segments status/n of t
StatusNumbers(t) ==
    { SubSeq(t, ab[1], ab[2]) : ab \in
        { ab \in (1..Len(t)) \X (1..Len(t)) :
            /\ ab[1] <= ab[2]
            /\ ab[1] > Len(StatusLiteral)
            /\ SubSeq(t, ab[1] - Len(StatusLiteral), ab[1] - 1) = StatusLiteral
            /\ \A i \in ab[1]..ab[2] : t[i] \in Decimals
            /\ ab[2] = Len(t) \/ t[ab[2] + 1] \notin Decimals } }

\* C6: a bare numeric string n yields the id n; a token with a segment
\* status/n yields n as well, the id the bare string n yields; and a token
\* that is neither numeric nor has a numeric status segment yields no id.
C6_SameIdFromNumberAndUrl ==
    textPc = "returned" =>
        /\ \A n \in NumericCore(text) : matches = <<n>>
        /\ \A n \in StatusNumbers(text) :
            /\ \E i \in 1..Len(matches) : matches[i] = n
            /\ GetTweetIdFromText(n) = <<n>>
        /\ (NumericCore(text) = {} /\ StatusNumbers(text) = {}) => matches = <<>>

(***************************************************************************)
(* Properties of the paginator (specification SpecPager).                  *)
(***************************************************************************)
\* the latest handler left tweet k on display: its media messages are in the
\* chat and the control message carries its caption and its buttons
Displayed(k) ==
    /\ press.outcome = "tweet"
    /\ control.state = "controls"
    /\ control.tweet_id = k
    /\ control.caption = k
    /\ control.message_ids # {}
    /\ control.message_ids \subseteq chat

\* the latest handler left the terminal text on the control message
TerminalShown ==
    /\ press.outcome = "terminal"
    /\ control.state = "terminal"

\* three unprocessed tweets of three creation times and nothing else
WalkTable ==
    /\ Len(store) = 3
    /\ \A k \in 1..3 : ~store[k].processed
    /\ \A j, k \in 1..3 : store[j].created_at = store[k].created_at => j = k

\* T1, T2, T3: the i-th latest tweet of the table
TweetAt(i) ==
    CHOOSE k \in 1..Len(store) :
        Cardinality({ j \in 1..Len(store) : store[j].created_at > store[k].created_at }) = i - 1

\* C9: on a table of exactly three unprocessed tweets T1 > T2 > T3, to_latest
\* displays T1, next displays T2 from T1, T3 from T2 and the terminal text
\* from T3, and previous displays T2 from T3 and T1 from T2.
C9_PaginationWalk ==
    WalkTable =>
        /\ press.action = "to_latest" => Displayed(TweetAt(1))
        /\ \A i \in 1..3 :
            (press.action = "next_tweet" /\ press.from = TweetAt(i)) =>
                IF i < 3 THEN Displayed(TweetAt(i + 1)) ELSE TerminalShown
        /\ \A i \in 2..3 :
            (press.action = "previous_tweet" /\ press.from = TweetAt(i)) =>
                Displayed(TweetAt(i - 1))

\* the unprocessed tweets created strictly before / after tweet k
EarlierUnprocessed(k) ==
    { j \in 1..Len(store) : ~store[j].processed /\ store[j].created_at < store[k].created_at }

LaterUnprocessed(k) ==
    { j \in 1..Len(store) : ~store[j].processed /\ store[j].created_at > store[k].created_at }

\* C10: on any table, next displays an unprocessed tweet of the greatest
\* creation time strictly before the current tweet's (the terminal text when
\* there is none), previous one of the smallest creation time strictly
\* after it, and the tweet that next, previous or to_latest displays is
\* unprocessed.
C10_NearestUnprocessed ==
    /\ press.action = "next_tweet" =>
        IF EarlierUnprocessed(press.from) = {} THEN TerminalShown
        ELSE \E k \in EarlierUnprocessed(press.from) :
                /\ Displayed(k)
                /\ \A j \in EarlierUnprocessed(press.from) :
                     store[j].created_at <= store[k].created_at
    /\ press.action = "previous_tweet" =>
        IF LaterUnprocessed(press.from) = {} THEN TerminalShown
        ELSE \E k \in LaterUnprocessed(press.from) :
                /\ Displayed(k)
                /\ \A j \in LaterUnprocessed(press.from) :
                     store[k].created_at <= store[j].created_at
    /\ ( /\ press.action \in {"next_tweet", "previous_tweet", "to_latest"}
         /\ press.outcome = "tweet" ) => ~store[control.tweet_id].processed

\* C11: send_to_verus on a control message that shows X leaves X processed
\* and every other flag as it was, and displays what next from X displays:
\* the nearest strictly earlier unprocessed tweet, or the terminal text; X
\* is not the tweet on display afterwards.
C11_MarkProcessedThenNext ==
    /\ [](press.action = "send_to_verus" =>
            /\ store[press.from].processed
            /\ ~(control.state = "controls" /\ control.tweet_id = press.from)
            /\ IF EarlierUnprocessed(press.from) = {} THEN TerminalShown
               ELSE \E k \in EarlierUnprocessed(press.from) :
                       /\ Displayed(k)
                       /\ \A j \in EarlierUnprocessed(press.from) :
                            store[j].created_at <= store[k].created_at)
    /\ [][press'.action = "send_to_verus" =>
            \A k \in 1..Len(store) :
                k # control.tweet_id => store'[k].processed = store[k].processed]_vars

\* C12: after reset_progress every tweet of the table is unprocessed,
\* whichever tweet the control message showed, and the control message
\* still shows that tweet.
C12_ResetClearsEveryFlag ==
    press.action = "reset_progress" =>
        /\ \A k \in 1..Len(store) : ~store[k].processed
        /\ control.state = "controls"
        /\ control.tweet_id = press.from

\* C13: a transition that finds no qualifying tweet (next and send_to_verus:
\* no unprocessed tweet strictly earlier; previous: none strictly later;
\* to_latest: no unprocessed tweet at all) leaves the control message with
\* the terminal text and without buttons, and from a control message
\* without buttons no handler runs any more.
C13_TerminalIsFinal ==
    /\ []( /\ ( /\ press.action \in {"next_tweet", "send_to_verus"}
                /\ EarlierUnprocessed(press.from) = {} ) => TerminalShown
           /\ ( /\ press.action = "previous_tweet"
                /\ LaterUnprocessed(press.from) = {} ) => TerminalShown
           /\ ( /\ press.action = "to_latest"
                /\ \A k \in 1..Len(store) : store[k].processed ) => TerminalShown )
    /\ [][control.state # "terminal"]_vars

C13_Witness ==
    /\ press.action \in {"next_tweet", "previous_tweet", "send_to_verus", "to_latest"}
    /\ control = Terminal

\* C14: the media messages of the chat are exactly the ones the buttons of
\* the control message list, and the buttons carry the tweet the caption
\* shows; once a transition has run, the messages its payload listed are
\* deleted, so a control message without buttons leaves no media message.
C14_PayloadIsTheDisplay ==
    /\ control.state = "controls" =>
        /\ control.message_ids = chat
        /\ control.caption = control.tweet_id
    /\ control.state \in {"none", "terminal"} => chat = {}

\* C15: a button event whose data lacks the action, or that the library
\* could not decode, is answered, its message is deleted and no exception
\* escapes the handler; no tweet's flag, no media message and nothing the
\* buttons carried is changed.
C15_BadPayloadIsDropped ==
    /\ [](press.action \in {"InvalidCallbackData", "no_action"} =>
            /\ press.answer = "answered"
            /\ control.state = "deleted"
            /\ press.error = "")
    /\ [][press'.action \in {"InvalidCallbackData", "no_action"} =>
            /\ store' = store
            /\ chat' = chat
            /\ control'.tweet_id = control.tweet_id
            /\ control'.message_ids = control.message_ids]_vars

C15_Witness ==
    /\ press.action = "InvalidCallbackData"
    /\ control.state = "deleted"
    /\ \E k \in 1..Len(store) : store[k].processed

\* C23: get_timeline does not fail and returns, for the i-th entry of the
\* provider's page, the stored Tweet of that entry's id; an entry whose id
\* was stored when its sub-task began is returned as that stored row and
\* inserts nothing, so a second run on the same page adds no row.
C23_TimelineInOrder ==
    cmd.kind = "timeline" =>
        \A i \in TaskIds :
            /\ tasks[i].result.kind # "raised"
            /\ tasks[i].pc = "done" =>
                /\ tasks[i].result.kind = "tweet"
                /\ tasks[i].result.pk \in 1..Len(store)
                /\ store[tasks[i].result.pk].tweet_id = tasks[i].id
                /\ tasks[i].cached_pk # 0 =>
                    /\ ~tasks[i].inserted
                    /\ tasks[i].result.pk = tasks[i].cached_pk

\* C24: a button event whose action has no handler is answered and raises
\* nothing; it changes no tweet's flag and no media message, and the
\* control message is deleted exactly when the data asks for it; when it
\* is kept its buttons are still there and their handlers still run.
C24_UnknownActionIsSkipped ==
    /\ [](press.action = "unknown_action" =>
            /\ press.answer = "Unknown action"
            /\ press.error = ""
            /\ control.state = "deleted" <=> press.delete_if_unknown
            /\ ~press.delete_if_unknown =>
                /\ control.state = "controls"
                /\ ENABLED ButtonNextTweet)
    /\ [][press'.action = "unknown_action" =>
            /\ store' = store
            /\ chat' = chat
            /\ control'.tweet_id = control.tweet_id
            /\ control'.message_ids = control.message_ids
            /\ control'.caption = control.caption]_vars

C24_Witness ==
    /\ press.action = "unknown_action"
    /\ ~press.delete_if_unknown
    /\ control.state = "controls"
    /\ chat # {}

\* the rows that are in the table before and after a step
Kept(s, t) == { k \in 1..Len(s) : k <= Len(t) }

\* C26: send_to_verus sets the flag of the tweet on display and of no
\* other, reset_progress leaves every flag cleared, and every other
\* handler (next, previous, to_latest, the latest-tweet command with the
\* rendering each of them does, the resolver's tasks on the rows they
\* find) leaves every flag as it was; a row the resolver adds is
\* unprocessed.
C26_OnlyTwoWritersOfTheFlag ==
    [][ /\ \A k \in 1..Len(store') : k > Len(store) => ~store'[k].processed
        /\ IF press' = press \/ press'.action \notin {"send_to_verus", "reset_progress"}
           THEN \A k \in Kept(store, store') : store'[k].processed = store[k].processed
           ELSE /\ press'.action = "send_to_verus" =>
                    /\ store'[control.tweet_id].processed
                    /\ \A k \in Kept(store, store') :
                        k # control.tweet_id => store'[k].processed = store[k].processed
                /\ press'.action = "reset_progress" =>
                    \A k \in 1..Len(store') : ~store'[k].processed ]_vars

\* the unprocessed tweets of the table
Unprocessed == { k \in 1..Len(store) : ~store[k].processed }

\* C27: a walk from to_latest by next shows no tweet twice, and when it
\* has come to the terminal text it has shown every unprocessed tweet of
\* the table, tweets of one creation time included.
C27_WalkShowsEveryTweetOnce ==
    /\ \A i, j \in 1..Len(walk) : (walk[i] = walk[j] /\ walk[i] # 0) => i = j
    /\ (walk # <<>> /\ walk[Len(walk)] = 0) =>
            \A k \in Unprocessed : \E i \in 1..Len(walk) : walk[i] = k

\* the tweets that were unprocessed before the first press of the walk
UnprocessedAtStart ==
    Cardinality(Unprocessed) + Cardinality({ i \in 1..Len(walk) : walk[i].flipped })

\* C28: Send to Verus pressed repeatedly on a control message that shows an
\* unprocessed tweet, on a table with N unprocessed tweets, has brought up
\* the terminal text after N presses at the latest; and when the terminal
\* text is shown every tweet of the table is processed.
C28_MarkingEndsWithNothingLeft ==
    /\ (walk # <<>> /\ walk[1].flipped) =>
            /\ Len(walk) <= UnprocessedAtStart
            /\ Len(walk) = UnprocessedAtStart => control.state = "terminal"
    /\ control.state = "terminal" => Unprocessed = {}

(***************************************************************************)
(* Properties of the sessions (specifications SpecLogin and SpecSession).  *)
(***************************************************************************)
\* the id under which the handle of the call's user is kept
CallId == users[call.user].telegram_id

\* C16: _get_twitter is memoized per user id: a call returns the handle kept
\* for the id, two ids never share a handle, a handle that a call has just
\* constructed is not logged in, and a handle once kept for an id is never
\* replaced or dropped.
C16_OneHandlePerUser ==
    /\ []( /\ \A a, b \in DOMAIN twitters :
                twitters[a].handle = twitters[b].handle => a = b
           /\ (call.user # 0 /\ call.pc \in {"got_twitter", "returned"}) =>
                /\ CallId \in DOMAIN twitters
                /\ call.handle = twitters[CallId].handle
           /\ (call.pc = "got_twitter" /\ call.created) =>
                ~twitters[CallId].logged_in )
    /\ [][\A id \in DOMAIN twitters :
            /\ id \in DOMAIN twitters'
            /\ twitters'[id].handle = twitters[id].handle]_vars

C16_Witness ==
    /\ call.from = "login"
    /\ call.pc = "returned"
    /\ call.user # 0
    /\ ~call.created
    /\ Cardinality(DOMAIN twitters) = 2

\* C17: _get_logged_in_twitter raises the missing-credentials ValueError
\* exactly for a user who has neither the full username, email and password
\* nor cookies; a user with only cookies or only the three credentials is
\* accepted.
C17_MissingCredentials ==
    (call.from \in {"login", "auto_login"} /\ call.user # 0) =>
        ( call.error = "ValueError" <=>
            ( /\ ~HasCredentials(users[call.user])
              /\ call.cookies = "null" ) )

\* C19: a login that fails for one user of the startup sweep is not fatal:
\* auto_login goes on with the next user and post_init runs to its end,
\* the notification of the admins included.
C19_SweepSurvivesFailure ==
    (call.from = "auto_login" /\ call.pc = "raised") =>
        /\ boot.pc \in {"auto_login", "started"}
        /\ boot.error = ""

C20_LayoutByCount ==
    render.pc = "returned" =>
        LET sent == render.sent
            n == render.attachments
        IN  /\ (n = 0 /\ ~render.no_caption) =>
                /\ sent.error = ""
                /\ sent.texts = 1
                /\ sent.media = 0
            /\ n = 1 =>
                /\ sent.error = ""
                /\ sent.media = 1
                /\ sent.singles = 1
                /\ sent.groups = 0
            /\ n >= 2 =>
                /\ sent.error = ""
                /\ sent.groups = 1
                /\ sent.singles = 0
                /\ sent.media = n
            /\ (n = 0 /\ render.no_caption) =>
                /\ sent.error = "ValueError"
                /\ sent.texts + sent.media = 0
                /\ store[1].attachments = <<>>

C20_Witness ==
    /\ render.pc = "returned"
    /\ render.attachments = 2
    /\ render.no_caption
    /\ render.sent.groups = 1

C22_MediaNormalization ==
    media.pc = "returned" =>
        /\ media.attachment.type = "photo" =>
            /\ media.result.thumbnail_url = media.result.url
            /\ media.result.url.stem = media.attachment.media_url_https.stem
            /\ media.result.url.suffix = "jpg"
            /\ media.result.url.query = [name |-> "medium", format |-> "jpg"]
        /\ media.attachment.type = "video" =>
            LET seg == media.attachment.variants[Len(media.attachment.variants)].segment
            IN  /\ media.result.url = media.attachment.variants[Len(media.attachment.variants)]
                /\ \E w, h \in Dimensions :
                    /\ seg = w \o <<"x">> \o h
                    /\ media.result.width = PyInt(w)
                    /\ media.result.height = PyInt(h)
        /\ media.attachment.type = "animated_gif" =>
            /\ media.result.thumbnail_url = ""
            /\ media.result.duration = "None"

=============================================================================
